---- MODULE Spec2Model ----
(***************************************************************************)
(* Trip Status Board (src/app.js): the UTC day segmenter, the lane         *)
(* assigner, the status aggregator, the trip range resolver, the status    *)
(* shape normalizer and the handlers of the board with their store.        *)
(*                                                                         *)
(* Instants are whole seconds counted from 00:00:00Z of calendar day 0;    *)
(* a UTC calendar date (the "YYYY-MM-DD" text of toISODateUTC, which       *)
(* orders as the dates do) is the index of its day.                        *)
(***************************************************************************)
EXTENDS Integers, Sequences, FiniteSets, TLC

VARIABLES pc, legs, segs, laid, daySegs, laidOut, runs, keyState, legDot,
          tripDot, trip, today, selectedLeg, stored, storeOk, shown, lastOp, startDot

\* The variables of the board itself: the trip, the clock, the open leg
\* modal, the stored copy, what the last render showed, the last handler run.
appVars == <<tripDot, trip, today, selectedLeg, stored, storeOk, shown, lastOp, startDot>>

vars == <<pc, legs, segs, laid, daySegs, laidOut, runs, keyState, legDot,
          tripDot, trip, today, selectedLeg, stored, storeOk, shown, lastOp, startDot>>

(* ---------------- bounds of the model ---------------- *)
MaxDay == 2
MaxRowLegs == 2
MaxSegs == 3
MaxRuns == 2
MaxKeys == 3
MaxTripLegs == 3
MaxTripKeys == 1
MaxBoardLegs == 2
Today == 2

(* ---------------- time ---------------- *)
SecPerMin == 60
MinPerHour == 60
MinPerDay == 1440
SecPerHour == MinPerHour * SecPerMin
SecPerDay == MinPerDay * SecPerMin

\* A leg endpoint that is absent: "", null or undefined (falsy).
NoValue == -1
\* A leg endpoint that is a non-empty text no Date can be parsed from.
BadValue == -2
\* The time value of an invalid Date.
NaN == -3

\* new Date(isoZ): the instant of an ISO text, NaN for anything else.
ParseDateLenient(v) == IF v >= 0 THEN v ELSE IF v = BadValue THEN 0 ELSE NaN

ParseDate(v) == IF v >= 0 THEN v ELSE NaN

isNaN(d) == d = NaN

\* Date.UTC(d.getUTCFullYear(), d.getUTCMonth(), d.getUTCDate(), 0,0,0)
utcMidnightFromDate(d) == (d \div SecPerDay) * SecPerDay

getUTCHours(d) == (d % SecPerDay) \div SecPerHour

getUTCMinutes(d) == (d % SecPerHour) \div SecPerMin

\* setUTCDate(getUTCDate() + n)
addDaysUTC(d, n) == d + n * SecPerDay

toISODateUTC(d) == d \div SecPerDay

(* ---------------- legToDaySegments ---------------- *)
\* One pass of the while loop body and the rest of the walk.
RECURSIVE DayWalk(_, _, _, _, _, _, _)
DayWalk(curDay, endDay, std, sta, tripId, legIndex, leg) ==
  IF ~(curDay <= endDay) THEN <<>>
  ELSE LET dayStart == curDay
           dayEnd == addDaysUTC(curDay, 1)
           segStart == IF std > dayStart THEN std ELSE dayStart
           segEnd == IF sta < dayEnd THEN sta ELSE dayEnd
           emitted ==
             IF segEnd > segStart
             THEN << [dayISO |-> toISODateUTC(curDay),
                      tripId |-> tripId,
                      startMin |-> getUTCHours(segStart) * MinPerHour + getUTCMinutes(segStart),
                      endMin |-> getUTCHours(segEnd) * MinPerHour + getUTCMinutes(segEnd),
                      legIndex |-> legIndex,
                      legRef |-> leg] >>
             ELSE <<>>
       IN emitted \o DayWalk(addDaysUTC(curDay, 1), endDay, std, sta, tripId, legIndex, leg)

legToDaySegments(tripId, legIndex, leg) ==
  IF leg.stdUtc = NoValue \/ leg.staUtc = NoValue THEN <<>>
  ELSE LET std == ParseDate(leg.stdUtc)
           sta == ParseDate(leg.staUtc)
       IN IF isNaN(std) \/ isNaN(sta) THEN <<>>
          ELSE IF sta <= std THEN <<>>
          ELSE DayWalk(utcMidnightFromDate(std), utcMidnightFromDate(sta),
                       std, sta, tripId, legIndex, leg)

(* ---------------- assignLanes ---------------- *)
Max(S) == CHOOSE x \in S : \A y \in S : x >= y

Min(S) == CHOOSE x \in S : \A y \in S : x <= y

\* s.lane = i on a segment object, whether or not it carried a lane before.
WithLane(s, i) ==
  [f \in (DOMAIN s) \cup {"lane"} |-> IF f = "lane" THEN i ELSE s[f]]

LaneOrZero(s) == IF "lane" \in DOMAIN s THEN s.lane ELSE 0

\* The comparator (a,b) => a.startMin - b.startMin: TRUE when a sorts strictly
\* before b.
StartsBeforeLaneTie(a, b) ==
  \/ a.startMin < b.startMin
  \/ a.startMin = b.startMin /\ LaneOrZero(a) > LaneOrZero(b)

StartsBefore(a, b) == a.startMin < b.startMin

\* Array.prototype.sort is stable: an element goes behind every earlier
\* element that does not sort strictly after it.  The result is the order of
\* the input's indices.
RECURSIVE SortedOrder(_, _)
SortedOrder(segments, n) ==
  IF n = 0 THEN <<>>
  ELSE LET sorted == SortedOrder(segments, n - 1)
           Stays(j) == ~StartsBefore(segments[n], segments[j])
           Moves(j) == StartsBefore(segments[n], segments[j])
       IN SelectSeq(sorted, Stays) \o <<n>> \o SelectSeq(sorted, Moves)

\* s.startMin >= lanes[i]
LaneFreeStrict(s, laneEnd) == s.startMin > laneEnd

LaneFree(s, laneEnd) == s.startMin >= laneEnd

\* The for loop over the sorted segments: lanes holds each lane's last endMin,
\* laneOf the lane given to each input index (lanes count from 0).
RECURSIVE PlaceSegs(_, _, _, _, _)
PlaceSegs(segments, order, k, lanes, laneOf) ==
  IF k > Len(order) THEN laneOf
  ELSE LET s == segments[order[k]]
           free == {i \in 1..Len(lanes) : LaneFree(s, lanes[i])}
       IN IF free # {}
          THEN PlaceSegs(segments, order, k + 1,
                         [lanes EXCEPT ![Min(free)] = s.endMin],
                         laneOf @@ (order[k] :> Min(free) - 1))
          ELSE PlaceSegs(segments, order, k + 1,
                         Append(lanes, s.endMin),
                         laneOf @@ (order[k] :> Len(lanes)))

LaneOfIndex(segments) ==
  PlaceSegs(segments, SortedOrder(segments, Len(segments)), 1, <<>>, <<>>)

\* The value assignLanes returns: the sorted copy, every segment with its lane.
assignLanes(segments) ==
  LET order == SortedOrder(segments, Len(segments))
      laneOf == LaneOfIndex(segments)
  IN [k \in 1..Len(segments) |-> WithLane(segments[order[k]], laneOf[order[k]])]

\* What assignLanes leaves in the caller's list: the copy shares the segment
\* objects, so each keeps its lane, in the input order.
laneMarked(segments) ==
  LET laneOf == LaneOfIndex(segments)
  IN [i \in 1..Len(segments) |-> WithLane(segments[i], laneOf[i])]

(* ---------------- makeRegRow: segments per day, laid out ---------------- *)
RECURSIVE RowSegments(_, _)
RowSegments(tripLegs, n) ==
  IF n = 0 THEN <<>>
  ELSE RowSegments(tripLegs, n - 1) \o legToDaySegments("T1", n - 1, tripLegs[n])

segsByDay(tripLegs) ==
  LET all == RowSegments(tripLegs, Len(tripLegs))
      days == {all[i].dayISO : i \in 1..Len(all)}
  IN [d \in days |-> LET OnDay(s) == s.dayISO = d IN SelectSeq(all, OnDay)]

makeRegRow(tripLegs) ==
  LET byDay == segsByDay(tripLegs)
  IN [d \in DOMAIN byDay |-> assignLanes(byDay[d])]

(* ---------------- status mapping ---------------- *)
STATUS_STATES ==
  {"not_reqd", "own_missing_info", "own_complete", "not_started", "in_progress", "complete"}

\* Values a record can hold that are no text.
JsNull == "<null>"
JsUndefined == "<undefined>"
JsNumber == "<number 5>"
\* The outcome of a call that throws.
TypeError == "<TypeError>"

IsString(v) == v \notin {JsNull, JsUndefined, JsNumber}

Truthy(v) == v \notin {"", JsNull, JsUndefined}

\* v.toLowerCase().trim() on the texts of the model.
toLowerCaseTrim(v) ==
  CASE v = "Complete " -> "complete"
    [] v = " NOT_REQD" -> "not_reqd"
    [] OTHER -> v

normalizeState(s) ==
  LET v0 == IF Truthy(s) THEN s ELSE ""
  IN IF ~IsString(v0) THEN TypeError
     ELSE LET v == toLowerCaseTrim(v0)
          IN IF v \in STATUS_STATES THEN v ELSE "not_started"

dotFromState(state) ==
  LET s == normalizeState(state)
  IN IF s = TypeError THEN TypeError
     ELSE IF s = "not_reqd" THEN "grey"
     ELSE IF s = "not_started" THEN "red"
     ELSE IF s = "in_progress" \/ s = "own_missing_info" THEN "amber"
     ELSE IF s = "complete" \/ s = "own_complete" THEN "green"
     ELSE "red"

Includes(seq, x) == \E i \in 1..Len(seq) : seq[i] = x

\* states.map(normalizeState), normalized.map(dotFromState)
mapNormalizeState(seq) == [i \in 1..Len(seq) |-> normalizeState(seq[i])]

mapDotFromState(seq) == [i \in 1..Len(seq) |-> dotFromState(seq[i])]

dotFromStatesAmberFirst(states) ==
  LET all == mapNormalizeState(states)
      NotExcluded(s) == s # "not_reqd"
      normalized == SelectSeq(all, NotExcluded)
      dots == mapDotFromState(normalized)
  IN IF Includes(all, TypeError) THEN TypeError
     ELSE IF Len(normalized) = 0 THEN "grey"
     ELSE IF Includes(dots, "amber") THEN "amber"
     ELSE IF Includes(dots, "red") THEN "red"
     ELSE "green"

dotFromStates(states) ==
  LET all == mapNormalizeState(states)
      NotExcluded(s) == s # "not_reqd"
      normalized == SelectSeq(all, NotExcluded)
      dots == mapDotFromState(normalized)
  IN IF Includes(all, TypeError) THEN TypeError
     ELSE IF Len(normalized) = 0 THEN "grey"
     ELSE IF Includes(dots, "red") THEN "red"
     ELSE IF Includes(dots, "amber") THEN "amber"
     ELSE "green"

\* leg.status is held as the sequence Object.values(leg.status).map(x => x?.state).
legSummaryDots(leg) ==
  LET states == SelectSeq(leg.status, Truthy)
  IN dotFromStates(states)

\* legs.map(legSummaryDots)
mapLegSummaryDots(tripLegs) == [i \in 1..Len(tripLegs) |-> legSummaryDots(tripLegs[i])]

tripSummaryDotsAmberFirst(tripLegs) ==
  LET all == mapLegSummaryDots(tripLegs)
      NotGrey(d) == d # "grey"
      legDots == SelectSeq(all, NotGrey)
  IN IF Len(tripLegs) = 0 THEN "grey"
     ELSE IF Includes(all, TypeError) THEN TypeError
     ELSE IF Len(legDots) = 0 THEN "grey"
     ELSE IF Includes(legDots, "amber") THEN "amber"
     ELSE IF Includes(legDots, "red") THEN "red"
     ELSE "green"

\* tripSummaryDots(trip), of trip.legs || [].
tripSummaryDots(tripLegs) ==
  LET all == mapLegSummaryDots(tripLegs)
      NotGrey(d) == d # "grey"
      legDots == SelectSeq(all, NotGrey)
  IN IF Len(tripLegs) = 0 THEN "grey"
     ELSE IF Includes(all, TypeError) THEN TypeError
     ELSE IF Len(legDots) = 0 THEN "grey"
     ELSE IF Includes(legDots, "red") THEN "red"
     ELSE IF Includes(legDots, "amber") THEN "amber"
     ELSE "green"

isTripRed(tripLegs) == tripSummaryDots(tripLegs) = "red"

(* ======================================================================= *)
(* Inputs                                                                  *)
(* ======================================================================= *)
SeqsUpTo(S, n) == UNION {[1..k -> S] : k \in 0..n}

Leg(std, sta, status) == [stdUtc |-> std, staUtc |-> sta, status |-> status]

\* Minutes of the day and seconds of the minute the endpoints are drawn from:
\* 00:00, 01:30, 08:30, 23:00, on the minute and half a minute later.
MinuteMarks == {0, 90, 510, 1380}
SecondMarks == {0, 30}

Instants ==
  {d * SecPerDay + m * SecPerMin + s : d \in 0..MaxDay, m \in MinuteMarks, s \in SecondMarks}

EndpointValues == Instants \cup {NoValue, BadValue}

\* Endpoints of the legs of one registration row: 22:00, 23:00, 23:30 of day 0,
\* 00:00 and 01:00 of day 1.
RowInstants ==
  {1320 * SecPerMin, 1380 * SecPerMin, 1410 * SecPerMin, SecPerDay, SecPerDay + 60 * SecPerMin}

RowLegs == {Leg(a, b, <<>>) : a \in RowInstants, b \in RowInstants \cup {NoValue}}

\* Segments of one day handed to assignLanes.
LaneMarks == {0, 480, 540, 600, 660, 1440}

DaySegInputs ==
  {[startMin |-> a, endMin |-> b] : a \in LaneMarks, b \in LaneMarks} 

\* Raw values of a status entry's state, as loaded or imported.
RawStates ==
  STATUS_STATES \cup {"", "Complete ", " NOT_REQD", "done", JsNull, JsNumber}

NoRead == [raw |-> "", state |-> "none", dot |-> "none"]

(* ======================================================================= *)
(* The day segmenter applied to one leg                                    *)
(* ======================================================================= *)
IdleLanes == daySegs = <<>> /\ laidOut = <<>> /\ runs = 0

IdleStatus == keyState = NoRead /\ legDot = "none"

\* No trip in the list, no leg modal open, nothing stored, rendered or run.
NoTrip == [id |-> "none"]
NoSelection == [tripId |-> "none"]
NoShown == [rendered |-> FALSE, startDate |-> NoValue, endDate |-> NoValue, dot |-> "none"]
NoOp == [name |-> "none"]

IdleApp ==
  /\ tripDot = "none"
  /\ trip = NoTrip
  /\ today = 0
  /\ selectedLeg = NoSelection
  /\ stored = NoTrip
  /\ storeOk = TRUE
  /\ shown = NoShown
  /\ lastOp = NoOp
  /\ startDot = "none"

InitSeg ==
  /\ pc = "input"
  /\ legs \in {<<Leg(a, b, <<>>)>> : a \in EndpointValues, b \in EndpointValues}
  /\ segs = <<>>
  /\ laid = <<>>
  /\ IdleLanes
  /\ IdleStatus
  /\ IdleApp

Segment ==
  /\ pc = "input"
  /\ segs' = legToDaySegments("T1", 0, legs[1])
  /\ pc' = "segmented"
  /\ UNCHANGED <<legs, laid, daySegs, laidOut, runs, keyState, legDot, appVars>>

NextSeg == Segment

SpecSeg == InitSeg /\ [][NextSeg]_vars

(* ======================================================================= *)
(* One registration row rendered: segments grouped by day and laid out     *)
(* ======================================================================= *)
InitRow ==
  /\ pc = "input"
  /\ legs \in UNION {[1..k -> RowLegs] : k \in 1..MaxRowLegs}
  /\ segs = <<>>
  /\ laid = <<>>
  /\ IdleLanes
  /\ IdleStatus
  /\ IdleApp

RenderRow ==
  /\ pc = "input"
  /\ laid' = makeRegRow(legs)
  /\ pc' = "rendered"
  /\ UNCHANGED <<legs, segs, daySegs, laidOut, runs, keyState, legDot, appVars>>

NextRow == RenderRow

SpecRow == InitRow /\ [][NextRow]_vars

(* ======================================================================= *)
(* assignLanes run, and run again, on one day's segment list               *)
(* ======================================================================= *)
InitLanes ==
  /\ pc = "lanes"
  /\ legs = <<>>
  /\ segs = <<>>
  /\ laid = <<>>
  /\ daySegs \in SeqsUpTo({s \in DaySegInputs : s.startMin < s.endMin}, MaxSegs)
  /\ laidOut = <<>>
  /\ runs = 0
  /\ IdleStatus
  /\ IdleApp

AssignLanes ==
  /\ pc = "lanes"
  /\ runs < MaxRuns
  /\ laidOut' = assignLanes(daySegs)
  /\ daySegs' = laneMarked(daySegs)
  /\ runs' = runs + 1
  /\ UNCHANGED <<pc, legs, segs, laid, keyState, legDot, appVars>>

NextLanes == AssignLanes

SpecLanes == InitLanes /\ [][NextLanes]_vars

(* ======================================================================= *)
(* The status aggregator applied to one leg                                *)
(* ======================================================================= *)
InitStatus ==
  /\ pc = "status"
  /\ legs \in {<<Leg(NoValue, NoValue, st)>> : st \in SeqsUpTo(RawStates, MaxKeys)}
  /\ segs = <<>>
  /\ laid = <<>>
  /\ IdleLanes
  /\ IdleStatus
  /\ IdleApp

\* normalizeState and dotFromState applied to the state of one status entry.
ReadKey ==
  /\ pc = "status"
  /\ \E k \in 1..Len(legs[1].status) :
       keyState' = [raw |-> legs[1].status[k],
                    state |-> normalizeState(legs[1].status[k]),
                    dot |-> dotFromState(legs[1].status[k])]
  /\ UNCHANGED <<pc, legs, segs, laid, daySegs, laidOut, runs, legDot, appVars>>

Summarize ==
  /\ pc = "status"
  /\ legDot' = legSummaryDots(legs[1])
  /\ UNCHANGED <<pc, legs, segs, laid, daySegs, laidOut, runs, keyState, appVars>>

NextStatus == ReadKey \/ Summarize

SpecStatus == InitStatus /\ [][NextStatus]_vars

(* ======================================================================= *)
(* Properties of the day segmenter                                         *)
(* ======================================================================= *)
\* Both endpoints are parsable instants and the interval is not empty.
ValidLeg(leg) == leg.stdUtc >= 0 /\ leg.staUtc >= 0 /\ leg.staUtc > leg.stdUtc

\* A segment's bounds in minutes counted from 00:00 of day 0.
AbsStartMin(s) == s.dayISO * MinPerDay + s.startMin

AbsEndMin(s) == s.dayISO * MinPerDay + s.endMin

\* The number of UTC calendar days the half-open interval overlaps.
DaysOverlapped(leg) ==
  toISODateUTC(leg.staUtc - 1) - toISODateUTC(leg.stdUtc) + 1

\* C1: the segments of a valid leg, read in day order as minute intervals of
\* their days, start at the leg's departure minute, end at its arrival minute
\* and follow one another with no gap and no overlap.
C1_Tiling ==
  (pc = "segmented" /\ ValidLeg(legs[1])) =>
    /\ Len(segs) >= 1
    /\ AbsStartMin(segs[1]) = legs[1].stdUtc \div SecPerMin
    /\ AbsEndMin(segs[Len(segs)]) = legs[1].staUtc \div SecPerMin
    /\ \A i \in 1..(Len(segs) - 1) :
         /\ segs[i].dayISO < segs[i + 1].dayISO
         /\ AbsEndMin(segs[i]) = AbsStartMin(segs[i + 1])
    /\ (legs[1].stdUtc = 1380 * SecPerMin /\ legs[1].staUtc = SecPerDay + 90 * SecPerMin) =>
         /\ Len(segs) = 2
         /\ <<segs[1].dayISO, segs[1].startMin, segs[1].endMin>> = <<0, 1380, 1440>>
         /\ <<segs[2].dayISO, segs[2].startMin, segs[2].endMin>> = <<1, 0, 90>>

\* C2: every emitted segment has 0 <= startMin < endMin <= 1440.
C2_SegmentBounds ==
  pc = "segmented" =>
    \A i \in 1..Len(segs) :
      /\ 0 <= segs[i].startMin
      /\ segs[i].startMin < segs[i].endMin
      /\ segs[i].endMin <= MinPerDay

\* C3: a leg that ends exactly at 00:00 of the day after its departure day
\* yields one segment, on the departure day, ending at minute 1440.
C3_BoundaryExact ==
  (/\ pc = "segmented"
   /\ ValidLeg(legs[1])
   /\ legs[1].staUtc = addDaysUTC(utcMidnightFromDate(legs[1].stdUtc), 1)) =>
    /\ Len(segs) = 1
    /\ segs[1].dayISO = toISODateUTC(legs[1].stdUtc)
    /\ segs[1].endMin = MinPerDay

\* C4: a valid leg overlapping N calendar days yields N segments on N
\* consecutive days from the departure day; when N = 1 the segment's minutes
\* are the leg's own minutes of that day.
C4_SegmentCount ==
  (pc = "segmented" /\ ValidLeg(legs[1])) =>
    /\ Len(segs) = DaysOverlapped(legs[1])
    /\ \A i \in 1..Len(segs) : segs[i].dayISO = toISODateUTC(legs[1].stdUtc) + i - 1
    /\ DaysOverlapped(legs[1]) = 1 =>
         /\ Len(segs) = 1
         /\ segs[1].startMin =
              (legs[1].stdUtc - utcMidnightFromDate(legs[1].stdUtc)) \div SecPerMin
         /\ segs[1].endMin =
              (legs[1].staUtc - utcMidnightFromDate(legs[1].stdUtc)) \div SecPerMin

\* The counting half alone: N segments on N consecutive days.
SegmentCountOnly ==
  (pc = "segmented" /\ ValidLeg(legs[1])) =>
    /\ Len(segs) = DaysOverlapped(legs[1])
    /\ \A i \in 1..Len(segs) : segs[i].dayISO = toISODateUTC(legs[1].stdUtc) + i - 1

\* C5: a leg with a missing or unparsable endpoint, or with staUtc <= stdUtc,
\* yields the empty sequence.
C5_MalformedEmpty ==
  (pc = "segmented" /\ ~ValidLeg(legs[1])) => segs = <<>>

C5_Witness ==
  /\ pc = "segmented"
  /\ legs[1].stdUtc = BadValue
  /\ legs[1].staUtc >= 0
  /\ segs = <<>>

(* ======================================================================= *)
(* Properties of the lane assigner                                         *)
(* ======================================================================= *)
\* The part of its day a segment's leg really covers, in seconds.
CoverStart(s) ==
  IF s.legRef.stdUtc > s.dayISO * SecPerDay THEN s.legRef.stdUtc ELSE s.dayISO * SecPerDay

CoverEnd(s) ==
  IF s.legRef.staUtc < (s.dayISO + 1) * SecPerDay
  THEN s.legRef.staUtc ELSE (s.dayISO + 1) * SecPerDay

\* C6: on every day of a rendered row, two segments given the same lane
\* cover no common instant of that day.
C6_NoLaneOverlap ==
  pc = "rendered" =>
    \A d \in DOMAIN laid :
      \A i, j \in 1..Len(laid[d]) :
        (i < j /\ laid[d][i].lane = laid[d][j].lane) =>
          \/ CoverEnd(laid[d][i]) <= CoverStart(laid[d][j])
          \/ CoverEnd(laid[d][j]) <= CoverStart(laid[d][i])

LanesUsed(segments) == {segments[i].lane : i \in 1..Len(segments)}

\* The largest number of segments holding one instant (half-open intervals);
\* it is attained at some segment's start.
MaxOverlap(segments) ==
  IF Len(segments) = 0 THEN 0
  ELSE Max({Cardinality({j \in 1..Len(segments) :
                           /\ segments[j].startMin <= segments[i].startMin
                           /\ segments[i].startMin < segments[j].endMin})
            : i \in 1..Len(segments)})

\* C7: the number of distinct lanes assignLanes uses equals the largest number
\* of segments overlapping at one instant.
C7_LaneMinimality ==
  (pc = "lanes" /\ runs >= 1) =>
    Cardinality(LanesUsed(daySegs)) = MaxOverlap(daySegs)

C7_Witness ==
  /\ pc = "lanes"
  /\ runs >= 1
  /\ Len(daySegs) = 3
  /\ Cardinality(LanesUsed(daySegs)) = 2
  /\ \E i, j \in 1..Len(daySegs) :
       /\ daySegs[i].endMin = daySegs[j].startMin
       /\ daySegs[i].lane = daySegs[j].lane

\* C8: running assignLanes again on the list it has already annotated, in the
\* same order, gives every segment the lane it had and returns the same
\* sorted list.
C8_LaneDeterminism ==
  [][(pc = "lanes" /\ runs >= 1 /\ runs' = runs + 1) =>
       (daySegs' = daySegs /\ laidOut' = laidOut)]_vars

C8_Witness ==
  /\ pc = "lanes"
  /\ runs = 2
  /\ \E i, j \in 1..Len(daySegs) :
       /\ i < j
       /\ daySegs[i].startMin = daySegs[j].startMin
       /\ daySegs[i].lane # daySegs[j].lane

(* ======================================================================= *)
(* Properties of the status aggregator                                     *)
(* ======================================================================= *)
AllRecognized(leg) == \A k \in 1..Len(leg.status) : leg.status[k] \in STATUS_STATES

HasState(leg, S) == \E k \in 1..Len(leg.status) : leg.status[k] \in S

\* C9: with every key in a recognized state, the leg is grey iff every key is
\* not_reqd, otherwise red if a key is not_started, otherwise amber if a key is
\* in_progress or own_missing_info, otherwise green.
C9_LegSeverity ==
  (pc = "status" /\ legDot # "none" /\ AllRecognized(legs[1])) =>
    legDot = IF ~HasState(legs[1], STATUS_STATES \ {"not_reqd"}) THEN "grey"
             ELSE IF HasState(legs[1], {"not_started"}) THEN "red"
             ELSE IF HasState(legs[1], {"in_progress", "own_missing_info"}) THEN "amber"
             ELSE "green"

C9_Witness ==
  /\ pc = "status"
  /\ legDot = "red"
  /\ AllRecognized(legs[1])
  /\ Len(legs[1].status) = 3
  /\ HasState(legs[1], {"not_started"})
  /\ Cardinality({k \in 1..3 : legs[1].status[k] = "complete"}) = 2

\* A raw value that is no recognized state in any letter case or padding.
Unrecognized(v) == ~IsString(v) \/ toLowerCaseTrim(v) \notin STATUS_STATES

\* C10: an unrecognized raw value is normalized to not_started and shown red,
\* and the call returns normally.
C10_UnrecognizedConservative ==
  (pc = "status" /\ keyState # NoRead /\ Unrecognized(keyState.raw)) =>
    /\ keyState.state = "not_started"
    /\ keyState.dot = "red"

(* ======================================================================= *)
(* The trip-level status reduction applied to one trip's legs              *)
(* ======================================================================= *)
\* States the keys of a trip's legs are drawn from: one of each colour.
TripStates == {"not_reqd", "not_started", "in_progress", "complete"}

TripLegInputs == {Leg(NoValue, NoValue, st) : st \in SeqsUpTo(TripStates, MaxTripKeys)}

InitTrip ==
  /\ pc = "trip"
  /\ legs \in SeqsUpTo(TripLegInputs, MaxTripLegs)
  /\ segs = <<>>
  /\ laid = <<>>
  /\ IdleLanes
  /\ IdleStatus
  /\ IdleApp

SummarizeTrip ==
  /\ pc = "trip"
  /\ tripDot' = tripSummaryDots(legs)
  /\ UNCHANGED <<pc, legs, segs, laid, daySegs, laidOut, runs, keyState, legDot,
                 trip, today, selectedLeg, stored, storeOk, shown, lastOp, startDot>>

NextTrip == SummarizeTrip

SpecTrip == InitTrip /\ [][NextTrip]_vars

LegDotIs(tripLegs, colours) ==
  \E i \in 1..Len(tripLegs) : legSummaryDots(tripLegs[i]) \in colours

\* The list with the legs at i and j exchanged.
Swapped(tripLegs, i, j) ==
  [k \in 1..Len(tripLegs) |->
     IF k = i THEN tripLegs[j] ELSE IF k = j THEN tripLegs[i] ELSE tripLegs[k]]

\* C11: a trip with no legs is grey; otherwise the grey legs are discarded and
\* the trip is grey if none remain, else red if a remaining leg is red, else
\* amber if one is amber, else green; exchanging any two legs (hence any
\* permutation) gives the same result.
C11_TripSeverity ==
  (pc = "trip" /\ tripDot # "none") =>
    /\ tripDot = IF Len(legs) = 0 THEN "grey"
                 ELSE IF ~LegDotIs(legs, {"red", "amber", "green"}) THEN "grey"
                 ELSE IF LegDotIs(legs, {"red"}) THEN "red"
                 ELSE IF LegDotIs(legs, {"amber"}) THEN "amber"
                 ELSE "green"
    /\ \A i, j \in 1..Len(legs) : tripSummaryDots(Swapped(legs, i, j)) = tripDot

C11_Witness ==
  /\ pc = "trip"
  /\ tripDot = "red"
  /\ Len(legs) = 3
  /\ legSummaryDots(legs[1]) = "grey"
  /\ legSummaryDots(legs[2]) = "green"
  /\ legSummaryDots(legs[3]) = "red"

(* ======================================================================= *)
(* The board: one trip, its legs, the leg modal, the store                 *)
(*                                                                         *)
(* A trip is [id, legs, startDate, endDate]; a leg of the board is         *)
(* [stdUtc, staUtc, status] with status a function from the status keys    *)
(* it holds to entries [state, note].  The texts no claim reads (flightNo, *)
(* adep, ades, altn, tags, notes, updatedAt) are left out.                 *)
(* ======================================================================= *)
LEG_STATUS_KEYS ==
  <<"times", "handling", "flightPlan", "crewPax", "apisGar", "fuel", "catering",
    "wxNotam", "clientUpdate">>

Entry(state, note) == [state |-> state, note |-> note]

\* {}: a status object with no key.
EmptyStatus == [k \in {} |-> Entry("", "")]

\* The default entry of a missing key.
DefaultEntry == Entry("not_started", "")

\* The body of "for (const [key] of LEG_STATUS_KEYS)" from the k-th key on;
\* a throw of normalizeState leaves what was written so far.
RECURSIVE EnsureKeys(_, _)
EnsureKeys(status, k) ==
  IF k > Len(LEG_STATUS_KEYS) THEN [status |-> status, threw |-> FALSE]
  ELSE LET key == LEG_STATUS_KEYS[k]
           s1 == IF key \notin DOMAIN status THEN status @@ (key :> DefaultEntry) ELSE status
           s2 == IF s1[key].note \in {JsNull, JsUndefined}
                 THEN [s1 EXCEPT ![key].note = ""] ELSE s1
           ns == normalizeState(s2[key].state)
       IN IF ns = TypeError THEN [status |-> s2, threw |-> TRUE]
          ELSE EnsureKeys([s2 EXCEPT ![key].state = ns], k + 1)

\* "for (const leg of trip.legs)" from the i-th leg on.
RECURSIVE EnsureLegs(_, _)
EnsureLegs(tripLegs, i) ==
  IF i > Len(tripLegs) THEN [legs |-> tripLegs, threw |-> FALSE]
  ELSE LET r == EnsureKeys(tripLegs[i].status, 1)
           done == [tripLegs EXCEPT ![i].status = r.status]
       IN IF r.threw THEN [legs |-> done, threw |-> TRUE]
          ELSE EnsureLegs(done, i + 1)

\* ensureLegStatusShape(trip): the trip as it leaves it, and whether it threw.
ensureLegStatusShape(t) ==
  LET r == EnsureLegs(t.legs, 1)
  IN [trip |-> [t EXCEPT !.legs = r.legs], threw |-> r.threw]

\* Object.values(leg.status).map(x => x?.state), in the order of the keys.
ObjectValuesState(status) ==
  LET Held(k) == k \in DOMAIN status
      present == SelectSeq(LEG_STATUS_KEYS, Held)
  IN [i \in 1..Len(present) |-> status[present[i]].state]

\* The legs of a trip as legSummaryDots and tripSummaryDots read them.
StatusView(tripLegs) ==
  [i \in 1..Len(tripLegs) |->
     Leg(tripLegs[i].stdUtc, tripLegs[i].staUtc, ObjectValuesState(tripLegs[i].status))]

(* ---------------- updateTripDatesFromLegs ---------------- *)
\* l.stdUtc && l.staUtc
BothEndpoints(l) == l.stdUtc # NoValue /\ l.staUtc # NoValue

\* The loop stopping after the first leg it can parse.
MinMaxFirstLeg(ls, i, acc) ==
  LET parsable == {k \in i..Len(ls) : ~isNaN(ParseDate(ls[k].stdUtc)) /\ ~isNaN(ParseDate(ls[k].staUtc))}
  IN IF parsable = {} THEN acc
     ELSE LET k == CHOOSE x \in parsable : \A y \in parsable : x <= y
          IN [minStd |-> ParseDate(ls[k].stdUtc), maxSta |-> ParseDate(ls[k].staUtc)]

\* The for loop: acc = [minStd, maxSta], NoValue standing for null.
RECURSIVE MinMaxLoop(_, _, _)
MinMaxLoop(ls, i, acc) ==
  IF i > Len(ls) THEN acc
  ELSE LET std == ParseDate(ls[i].stdUtc)
           sta == ParseDate(ls[i].staUtc)
       IN IF isNaN(std) \/ isNaN(sta) THEN MinMaxLoop(ls, i + 1, acc)
          ELSE MinMaxLoop(ls, i + 1,
                 [minStd |-> IF acc.minStd = NoValue \/ std < acc.minStd THEN std ELSE acc.minStd,
                  maxSta |-> IF acc.maxSta = NoValue \/ sta > acc.maxSta THEN sta ELSE acc.maxSta])

\* trip.startDate = trip.startDate || todayUtc; trip.endDate = trip.endDate || trip.startDate
FallbackDates(t, todayUtc) ==
  LET start == IF t.startDate # NoValue THEN t.startDate ELSE todayUtc
  IN [t EXCEPT !.startDate = start,
               !.endDate = IF t.endDate # NoValue THEN t.endDate ELSE start]

updateTripDatesFromLegs(t, todayUtc) ==
  LET ls == SelectSeq(t.legs, BothEndpoints)
  IN IF Len(ls) = 0 THEN FallbackDates(t, todayUtc)
     ELSE LET acc == MinMaxLoop(ls, 1, [minStd |-> NoValue, maxSta |-> NoValue])
          IN IF acc.minStd = NoValue \/ acc.maxSta = NoValue
             THEN FallbackDates(t, todayUtc)
             ELSE [t EXCEPT !.startDate = toISODateUTC(acc.minStd),
                            !.endDate = toISODateUTC(acc.maxSta)]

(* ---------------- saveTripsToLocal ---------------- *)
\* What a handler is left with after the call: the store, whether setItem
\* threw inside the try, whether console.error was called, and the value
\* returned to the handler (none on either path).
saveTripsToLocal(t, store, ok) ==
  [stored |-> IF ok THEN t ELSE store,
   failed |-> ~ok,
   logged |-> ~ok,
   result |-> "undefined",
   threw |-> FALSE]

Op(name, sv) ==
  [name |-> name, saved |-> TRUE, failed |-> sv.failed,
   logged |-> sv.logged, result |-> sv.result, threw |-> sv.threw]

\* A handler that returned, or threw, before it reached saveTripsToLocal.
OpNoSave(name, threw) ==
  [name |-> name, saved |-> FALSE, failed |-> FALSE,
   logged |-> FALSE, result |-> "undefined", threw |-> threw]

(* ---------------- render ---------------- *)
\* The loop over trips at the head of render (the legs hold no legacy
\* day/std/sta texts, so ensureLegDatetimes finds nothing to fill), and what
\* makeTripBar then shows.
render(s, todayUtc) ==
  IF s.trip = NoTrip
  THEN [s EXCEPT !.shown = [rendered |-> TRUE, startDate |-> NoValue,
                            endDate |-> NoValue, dot |-> "none"]]
  ELSE LET e == ensureLegStatusShape(s.trip)
           t2 == updateTripDatesFromLegs(e.trip, todayUtc)
       IN IF e.threw THEN [s EXCEPT !.trip = e.trip]
          ELSE [s EXCEPT !.trip = t2,
                         !.shown = [rendered |-> TRUE, startDate |-> t2.startDate,
                                    endDate |-> t2.endDate,
                                    dot |-> tripSummaryDots(StatusView(t2.legs))]]

\* openTripModal: ensureLegStatusShape, ensureLegDatetimes, updateTripDatesFromLegs.
openTripModal(s, todayUtc) ==
  LET e == ensureLegStatusShape(s.trip)
  IN IF e.threw THEN [s EXCEPT !.trip = e.trip]
     ELSE [s EXCEPT !.trip = updateTripDatesFromLegs(e.trip, todayUtc)]

openLegModal(s, legIndex) ==
  LET e == ensureLegStatusShape(s.trip)
  IN IF e.threw \/ legIndex + 1 \notin 1..Len(e.trip.legs) THEN [s EXCEPT !.trip = e.trip]
     ELSE [s EXCEPT !.trip = e.trip,
                    !.selectedLeg = [tripId |-> s.trip.id, legIndex |-> legIndex]]

closeLegModal(s) == [s EXCEPT !.selectedLeg = NoSelection]

(* ---------------- leg creation and deletion ---------------- *)
createBlankLeg == [stdUtc |-> NoValue, staUtc |-> NoValue, status |-> EmptyStatus]

addLegToEnd(s, todayUtc, ok) ==
  LET t1 == [s.trip EXCEPT !.legs = Append(@, createBlankLeg)]
      e == ensureLegStatusShape(t1)
      t2 == updateTripDatesFromLegs(e.trip, todayUtc)
      sv == saveTripsToLocal(t2, s.stored, ok)
      s2 == [s EXCEPT !.trip = t2, !.stored = sv.stored,
                      !.lastOp = Op("addLegToEnd", sv)]
  IN IF e.threw
     THEN [s EXCEPT !.trip = e.trip, !.lastOp = OpNoSave("addLegToEnd", TRUE)]
     ELSE openLegModal(openTripModal(s2, todayUtc), Len(t2.legs) - 1)

\* trip.legs.splice(afterIndex + 1, 0, createBlankLeg())
InsertAt(ls, pos, x) ==
  [k \in 1..(Len(ls) + 1) |-> IF k < pos THEN ls[k] ELSE IF k = pos THEN x ELSE ls[k - 1]]

\* trip.legs.splice(legIndex, 1)
RemoveAt(ls, pos) ==
  [k \in 1..(Len(ls) - 1) |-> IF k < pos THEN ls[k] ELSE ls[k + 1]]

insertLegAfter(s, afterIndex, todayUtc, ok) ==
  LET t1 == [s.trip EXCEPT !.legs = InsertAt(@, afterIndex + 2, createBlankLeg)]
      e == ensureLegStatusShape(t1)
      t2 == updateTripDatesFromLegs(e.trip, todayUtc)
      sv == saveTripsToLocal(t2, s.stored, ok)
      s2 == [s EXCEPT !.trip = t2, !.stored = sv.stored,
                      !.lastOp = Op("insertLegAfter", sv)]
  IN IF e.threw
     THEN [s EXCEPT !.trip = e.trip, !.lastOp = OpNoSave("insertLegAfter", TRUE)]
     ELSE openLegModal(openTripModal(s2, todayUtc), afterIndex + 1)

\* The selection left as it was.
selectionKept(s, legIndex) == s.selectedLeg

\* deleteLeg: closeLegModal() if the open leg is the deleted one,
\* state.selectedLeg.legIndex -= 1 if it lies behind it.
selectionAfterDelete(s, legIndex) ==
  IF s.selectedLeg # NoSelection /\ s.selectedLeg.tripId = s.trip.id
  THEN IF s.selectedLeg.legIndex = legIndex THEN NoSelection
       ELSE IF s.selectedLeg.legIndex > legIndex
            THEN [s.selectedLeg EXCEPT !.legIndex = @ - 1]
            ELSE s.selectedLeg
  ELSE s.selectedLeg

deleteLeg(s, legIndex, confirmed, todayUtc, ok) ==
  IF ~confirmed THEN [s EXCEPT !.lastOp = OpNoSave("deleteLeg", FALSE)]
  ELSE LET t1 == [s.trip EXCEPT !.legs = RemoveAt(@, legIndex + 1)]
           sel == selectionAfterDelete(s, legIndex)
           e == ensureLegStatusShape(t1)
           t2 == updateTripDatesFromLegs(e.trip, todayUtc)
           sv == saveTripsToLocal(t2, s.stored, ok)
           s2 == [s EXCEPT !.trip = t2, !.selectedLeg = sel, !.stored = sv.stored,
                           !.lastOp = Op("deleteLeg", sv)]
       IN IF e.threw
          THEN [s EXCEPT !.trip = e.trip, !.selectedLeg = sel,
                         !.lastOp = OpNoSave("deleteLeg", TRUE)]
          ELSE render(openTripModal(s2, todayUtc), todayUtc)

(* ---------------- the leg editor ---------------- *)
\* Minutes the local clock of the browser is ahead of UTC.
TzOffsetMin == 60

\* isoToLocalInputValue: the local wall-clock minute of an instant, as the
\* picker holds it; "" for a missing or unparsable text.
isoToLocalInputValue(isoZ) ==
  IF isoZ = NoValue \/ isNaN(ParseDate(isoZ)) THEN NoValue
  ELSE (isoZ - (isoZ % SecPerMin)) + TzOffsetMin * SecPerMin

\* localInputValueToIsoZ: the instant of a local wall-clock value.
localInputValueToIsoZ(v) ==
  IF v = NoValue \/ isNaN(ParseDate(v)) THEN NoValue
  ELSE v - TzOffsetMin * SecPerMin

\* sta.setUTCDate(sta.getUTCDate() + 1) when sta <= std, both parsable.
RollArrival(std, sta) ==
  IF std # NoValue /\ sta # NoValue /\ ~isNaN(ParseDate(std)) /\ ~isNaN(ParseDate(sta))
     /\ sta <= std
  THEN addDaysUTC(sta, 1) ELSE sta

\* applyEdits with the write moved ahead of updateTripDatesFromLegs.
applyEditsSaveFirst(s, stdValue, staValue, todayUtc, ok) ==
  LET i == s.selectedLeg.legIndex + 1
      leg == s.trip.legs[i]
      stdIso == localInputValueToIsoZ(stdValue)
      staIso == localInputValueToIsoZ(staValue)
      std1 == IF stdIso # NoValue THEN stdIso ELSE leg.stdUtc
      sta1 == IF staIso # NoValue THEN staIso ELSE leg.staUtc
      t1 == [s.trip EXCEPT !.legs[i].stdUtc = std1,
                           !.legs[i].staUtc = RollArrival(std1, sta1)]
      e == ensureLegStatusShape(t1)
      t2 == updateTripDatesFromLegs(e.trip, todayUtc)
      sv == saveTripsToLocal(e.trip, s.stored, ok)
      s2 == [s EXCEPT !.trip = t2, !.stored = sv.stored,
                      !.lastOp = Op("applyEdits", sv)]
  IN IF e.threw
     THEN [s EXCEPT !.trip = e.trip, !.lastOp = OpNoSave("applyEdits", TRUE)]
     ELSE render(s2, todayUtc)

\* applyEdits on the selected leg, with what the two pickers hold.
applyEdits(s, stdValue, staValue, todayUtc, ok) ==
  LET i == s.selectedLeg.legIndex + 1
      leg == s.trip.legs[i]
      stdIso == localInputValueToIsoZ(stdValue)
      staIso == localInputValueToIsoZ(staValue)
      std1 == IF stdIso # NoValue THEN stdIso ELSE leg.stdUtc
      sta1 == IF staIso # NoValue THEN staIso ELSE leg.staUtc
      t1 == [s.trip EXCEPT !.legs[i].stdUtc = std1,
                           !.legs[i].staUtc = RollArrival(std1, sta1)]
      e == ensureLegStatusShape(t1)
      t2 == updateTripDatesFromLegs(e.trip, todayUtc)
      sv == saveTripsToLocal(t2, s.stored, ok)
      s2 == [s EXCEPT !.trip = t2, !.stored = sv.stored,
                      !.lastOp = Op("applyEdits", sv)]
  IN IF e.threw
     THEN [s EXCEPT !.trip = e.trip, !.lastOp = OpNoSave("applyEdits", TRUE)]
     ELSE render(s2, todayUtc)

\* The change handler of a status select of the open leg.
statusChange(s, key, value, todayUtc, ok) ==
  LET i == s.selectedLeg.legIndex + 1
      ns == normalizeState(value)
      t1 == [s.trip EXCEPT !.legs[i].status[key].state = ns]
      sv == saveTripsToLocal(t1, s.stored, ok)
  IN render([s EXCEPT !.trip = t1, !.stored = sv.stored,
                      !.lastOp = Op("statusChange", sv)], todayUtc)

\* The input handler of a note field of the open leg.
noteChange(s, key, text, ok) ==
  LET i == s.selectedLeg.legIndex + 1
      t1 == [s.trip EXCEPT !.legs[i].status[key].note = text]
      sv == saveTripsToLocal(t1, s.stored, ok)
  IN [s EXCEPT !.trip = t1, !.stored = sv.stored, !.lastOp = Op("noteChange", sv)]

saveLegModal(s, todayUtc, ok) ==
  LET t1 == updateTripDatesFromLegs(s.trip, todayUtc)
      sv == saveTripsToLocal(t1, s.stored, ok)
  IN render(closeLegModal([s EXCEPT !.trip = t1, !.stored = sv.stored,
                                    !.lastOp = Op("saveLegModal", sv)]),
            todayUtc)

(* ---------------- createTripFromForm ---------------- *)
\* new Date(Date.UTC(y, m - 1, d, hh, mm, 0)) of a day and a well-formed HH:MM.
makeUtcDateFromDayAndHHMM(dayIso, hhmm) == dayIso * SecPerDay + hhmm * SecPerMin

\* The form with client and registration filled in; hasText says whether a
\* flight number or an airport was typed for the first leg.
createTripFromForm(s, startDate, endDate, stdHH, staHH, hasText, todayUtc, ok) ==
  IF startDate = NoValue \/ endDate = NoValue
  THEN [s EXCEPT !.lastOp = OpNoSave("createTripFromForm", FALSE)]
  ELSE LET stdUtc == IF stdHH # NoValue THEN makeUtcDateFromDayAndHHMM(startDate, stdHH)
                     ELSE NoValue
           arrDay == IF stdHH # NoValue /\ staHH # NoValue /\ staHH < stdHH
                     THEN startDate + 1 ELSE startDate
           staUtc == IF staHH # NoValue THEN makeUtcDateFromDayAndHHMM(arrDay, staHH)
                     ELSE NoValue
           firstLeg == [stdUtc |-> stdUtc, staUtc |-> staUtc, status |-> EmptyStatus]
           t0 == [id |-> "T1",
                  legs |-> IF hasText \/ stdUtc # NoValue \/ staUtc # NoValue
                           THEN <<firstLeg>> ELSE <<>>,
                  startDate |-> startDate, endDate |-> endDate]
           e == ensureLegStatusShape(t0)
           t2 == updateTripDatesFromLegs(e.trip, todayUtc)
           sv == saveTripsToLocal(t2, s.stored, ok)
       IN render([s EXCEPT !.trip = t2, !.stored = sv.stored,
                           !.lastOp = Op("createTripFromForm", sv)], todayUtc)

(* ======================================================================= *)
(* The board from page load on                                             *)
(* ======================================================================= *)
\* The trips the page can load: the demo trip (a leg 09:00Z-10:30Z of day 1,
\* status {}, no dates), a seeded trip with no legs and no dates, or none.
DemoTrip ==
  [id |-> "T1",
   legs |-> <<[stdUtc |-> SecPerDay + 540 * SecPerMin,
               staUtc |-> SecPerDay + 630 * SecPerMin,
               status |-> EmptyStatus]>>,
   startDate |-> NoValue, endDate |-> NoValue]

BareTrip == [id |-> "T1", legs |-> <<>>, startDate |-> NoValue, endDate |-> NoValue]

\* What the user can set a picker to (local wall clock), or clear it.
PickerDays == {1, 3}
PickerValues == {d * SecPerDay + 600 * SecPerMin : d \in PickerDays} \cup {NoValue}

\* What the user can put into the new-trip form.
FormStartDates == {3}
FormEndDates == {1, 3}
FormTimes == {NoValue, 540}

\* The leg and the status tile the user works on, the options picked in its
\* select, and the note typed into it.
EditedLegs == {0}
EditedKeys == {"times"}
SelectChoices == {"not_started", "complete"}
NoteTexts == {"x"}

AppState ==
  [trip |-> trip, selectedLeg |-> selectedLeg, stored |-> stored, shown |-> shown,
   lastOp |-> lastOp]

Becomes(s) ==
  /\ trip' = s.trip
  /\ selectedLeg' = s.selectedLeg
  /\ stored' = s.stored
  /\ shown' = s.shown
  /\ lastOp' = s.lastOp

Init ==
  /\ pc = "load"
  /\ legs = <<>>
  /\ segs = <<>>
  /\ laid = <<>>
  /\ IdleLanes
  /\ IdleStatus
  /\ tripDot = "none"
  /\ trip \in {DemoTrip, BareTrip, NoTrip}
  /\ today = Today
  /\ selectedLeg = NoSelection
  /\ stored = NoTrip
  /\ storeOk = TRUE
  /\ shown = NoShown
  /\ lastOp = NoOp
  /\ startDot = "none"

Untouched == UNCHANGED <<legs, segs, laid, daySegs, laidOut, runs, keyState, legDot, tripDot, storeOk>>

\* The initExpanded block: isTripRed on the trips as loaded.
InitExpanded ==
  /\ pc = "load"
  /\ startDot' = IF trip = NoTrip THEN "none" ELSE tripSummaryDots(StatusView(trip.legs))
  /\ pc' = "boot"
  /\ UNCHANGED <<trip, today, selectedLeg, stored, shown, lastOp>>
  /\ Untouched

Render ==
  /\ pc \in {"boot", "app"}
  /\ \E r \in {render(AppState, today)} : Becomes(r)
  /\ pc' = "app"
  /\ UNCHANGED <<today, startDot>>
  /\ Untouched

Handled(s) ==
  /\ \E r \in {s} : Becomes(r)
  /\ UNCHANGED <<pc, today, startDot>>
  /\ Untouched

CreateTrip ==
  /\ pc = "app"
  /\ trip = NoTrip
  /\ \E startDate \in FormStartDates, endDate \in FormEndDates, stdHH, staHH \in FormTimes, hasText \in BOOLEAN :
       Handled(createTripFromForm(AppState, startDate, endDate, stdHH, staHH, hasText,
                                  today, storeOk))

OpenLegModal ==
  /\ pc = "app"
  /\ trip # NoTrip
  /\ \E legIndex \in 0..(Len(trip.legs) - 1) : Handled(openLegModal(AppState, legIndex))

CloseLegModal ==
  /\ pc = "app"
  /\ selectedLeg # NoSelection
  /\ Handled(closeLegModal(AppState))

SaveLegModal ==
  /\ pc = "app"
  /\ selectedLeg # NoSelection
  /\ Handled(saveLegModal(AppState, today, storeOk))

AddLegToEnd ==
  /\ pc = "app"
  /\ trip # NoTrip
  /\ Len(trip.legs) < MaxBoardLegs
  /\ Handled(addLegToEnd(AppState, today, storeOk))

InsertLegAfter ==
  /\ pc = "app"
  /\ trip # NoTrip
  /\ Len(trip.legs) < MaxBoardLegs
  /\ \E afterIndex \in 0..(Len(trip.legs) - 1) :
       Handled(insertLegAfter(AppState, afterIndex, today, storeOk))

\* A click on the delete button of leg legIndex, and the answer to confirm().
DeleteLegAt(legIndex, confirmed) ==
  /\ pc = "app"
  /\ trip # NoTrip
  /\ legIndex \in 0..(Len(trip.legs) - 1)
  /\ Handled(deleteLeg(AppState, legIndex, confirmed, today, storeOk))

DeleteLeg ==
  \E legIndex \in 0..(MaxBoardLegs - 1), confirmed \in BOOLEAN : DeleteLegAt(legIndex, confirmed)

\* A change event of one picker of the open editor; the other picker holds
\* what renderLegDetails put into it.
ApplyEdits ==
  /\ pc = "app"
  /\ selectedLeg # NoSelection
  /\ LET leg == trip.legs[selectedLeg.legIndex + 1]
     IN \E field \in {"editStdUtc", "editStaUtc"}, v \in PickerValues :
          Handled(applyEdits(AppState,
                    IF field = "editStdUtc" THEN v ELSE isoToLocalInputValue(leg.stdUtc),
                    IF field = "editStaUtc" THEN v ELSE isoToLocalInputValue(leg.staUtc),
                    today, storeOk))

StatusChange ==
  /\ pc = "app"
  /\ selectedLeg # NoSelection
  /\ selectedLeg.legIndex \in EditedLegs
  /\ \E key \in EditedKeys, value \in SelectChoices :
       Handled(statusChange(AppState, key, value, today, storeOk))

NoteChange ==
  /\ pc = "app"
  /\ selectedLeg # NoSelection
  /\ selectedLeg.legIndex \in EditedLegs
  /\ \E key \in EditedKeys, text \in NoteTexts : Handled(noteChange(AppState, key, text, storeOk))

Next ==
  \/ InitExpanded
  \/ Render
  \/ CreateTrip
  \/ OpenLegModal
  \/ CloseLegModal
  \/ SaveLegModal
  \/ AddLegToEnd
  \/ InsertLegAfter
  \/ DeleteLeg
  \/ ApplyEdits
  \/ StatusChange
  \/ NoteChange

Spec == Init /\ [][Next]_vars

\* The same page over a store that refuses every write (quota exhausted,
\* storage disabled): setItem throws each time.
InitFail ==
  /\ pc = "load"
  /\ legs = <<>>
  /\ segs = <<>>
  /\ laid = <<>>
  /\ IdleLanes
  /\ IdleStatus
  /\ tripDot = "none"
  /\ trip \in {DemoTrip, BareTrip, NoTrip}
  /\ today = Today
  /\ selectedLeg = NoSelection
  /\ stored = NoTrip
  /\ storeOk = FALSE
  /\ shown = NoShown
  /\ lastOp = NoOp
  /\ startDot = "none"

SpecFail == InitFail /\ [][Next]_vars

(* ======================================================================= *)
(* Properties of the trip range                                            *)
(* ======================================================================= *)
\* A leg with both endpoints present, parsable, and a non-empty interval.
Qualifies(l) ==
  /\ l.stdUtc # NoValue /\ ~isNaN(ParseDate(l.stdUtc))
  /\ l.staUtc # NoValue /\ ~isNaN(ParseDate(l.staUtc))
  /\ l.staUtc > l.stdUtc

QualifyingLegs(t) == {i \in 1..Len(t.legs) : Qualifies(t.legs[i])}

HasRange(t) == t.startDate # NoValue /\ t.endDate # NoValue

\* C12: when at least one leg has both endpoints and staUtc > stdUtc,
\* updateTripDatesFromLegs sets startDate to the UTC date of the least stdUtc
\* and endDate to the UTC date of the greatest staUtc over exactly those legs;
\* the other legs have no influence.
C12_RangeDerivation ==
  (pc = "app" /\ trip # NoTrip /\ QualifyingLegs(trip) # {}) =>
    LET r == updateTripDatesFromLegs(trip, today)
        q == QualifyingLegs(trip)
    IN /\ r.startDate = toISODateUTC(Min({trip.legs[i].stdUtc : i \in q}))
       /\ r.endDate = toISODateUTC(Max({trip.legs[i].staUtc : i \in q}))

\* C13: after any sequence of operations the trip has startDate <= endDate.
C13_RangeOrdering ==
  (pc = "app" /\ trip # NoTrip) => trip.startDate <= trip.endDate

\* C14: once the trip has a range, a step into a state in which no leg
\* qualifies leaves startDate and endDate as they were; today's UTC date is
\* taken for both only when there was no stored range.
C14_RangeFallback ==
  [][(pc = "app" /\ trip # NoTrip /\ trip' # NoTrip /\ trip'.id = trip.id
      /\ QualifyingLegs(trip') = {}) =>
       IF HasRange(trip)
       THEN trip'.startDate = trip.startDate /\ trip'.endDate = trip.endDate
       ELSE trip'.startDate = today /\ trip'.endDate = today]_vars

(* ======================================================================= *)
(* Properties of the handlers                                              *)
(* ======================================================================= *)
\* C15: every mutating handler saves after its in-memory change, and a leg
\* mutation runs updateTripDatesFromLegs before the save and before the next
\* render: once a handler has saved, the store holds the trip as it is in
\* memory, the trip's dates are those updateTripDatesFromLegs gives for its
\* legs, and the dates on the board are the trip's.
C15_MutationOrdering ==
  (pc = "app" /\ lastOp # NoOp /\ lastOp.saved /\ ~lastOp.failed) =>
    /\ stored = trip
    /\ updateTripDatesFromLegs(trip, today) = trip
    /\ shown.startDate = trip.startDate
    /\ shown.endDate = trip.endDate

C15_Witness ==
  /\ pc = "app"
  /\ lastOp # NoOp
  /\ lastOp.name = "applyEdits"
  /\ lastOp.saved
  /\ ~lastOp.failed
  /\ Len(trip.legs) = 2
  /\ QualifyingLegs(trip) = {1, 2}
  /\ stored = trip
  /\ shown.startDate = 1
  /\ shown.endDate = 4

\* C16: when the write fails inside saveTripsToLocal the failure is reported
\* to the calling handler, nothing is thrown into it, the trip in memory keeps
\* the change just made (the store does not have it), and the page goes on
\* taking edits (no guard of an action reads the outcome of a write).
C16_FailureContained ==
  (pc = "app" /\ lastOp # NoOp /\ lastOp.saved /\ lastOp.failed) =>
    /\ lastOp.result # "undefined"
    /\ ~lastOp.threw
    /\ trip # NoTrip
    /\ trip # stored

\* What does hold on a failed write: console.error is called, the handler
\* gets nothing back and goes on, the change stays in memory.
FailureLoggedOnly ==
  (pc = "app" /\ lastOp # NoOp /\ lastOp.saved /\ lastOp.failed) =>
    /\ lastOp.logged
    /\ lastOp.result = "undefined"
    /\ ~lastOp.threw
    /\ trip # NoTrip
    /\ trip # stored

\* C19: the severity initExpanded reads at start-up is the severity the first
\* render shows for the same unchanged trip.
C19_StartupSeverity ==
  (pc = "app" /\ trip # NoTrip /\ lastOp = NoOp) => startDot = shown.dot

\* The leg of the open editor has both endpoints parsable and staUtc > stdUtc,
\* or lacks one.
EditedLegValid ==
  LET leg == trip.legs[selectedLeg.legIndex + 1]
  IN (/\ leg.stdUtc # NoValue /\ ~isNaN(ParseDate(leg.stdUtc))
      /\ leg.staUtc # NoValue /\ ~isNaN(ParseDate(leg.staUtc)))
     => leg.staUtc > leg.stdUtc

\* C20: after any applyEdits call that leaves both endpoints of the leg set
\* and parsable, the leg has staUtc > stdUtc.
C20_EditKeepsInterval == [][ApplyEdits => EditedLegValid']_vars

(* ======================================================================= *)
(* ensureLegStatusShape applied to a loaded or imported trip               *)
(* ======================================================================= *)
\* The keys a loaded status object may hold, and what an entry may hold.
ShapeKeys == {"times", "fuel"}
ShapeStates == {"complete", "Complete ", "done", "", JsNull, JsNumber}
ShapeNotes == {"", "x", JsNull}

ShapeStatuses ==
  UNION {[ks -> {Entry(st, n) : st \in ShapeStates, n \in ShapeNotes}] : ks \in SUBSET ShapeKeys}

ShapeTrips ==
  {[id |-> "T1", legs |-> <<[stdUtc |-> NoValue, staUtc |-> NoValue, status |-> st]>>,
    startDate |-> NoValue, endDate |-> NoValue] : st \in ShapeStatuses}

\* The trip as parsed from the store or from an imported file.
InitShape ==
  /\ pc = "loaded"
  /\ legs = <<>>
  /\ segs = <<>>
  /\ laid = <<>>
  /\ IdleLanes
  /\ IdleStatus
  /\ tripDot = "none"
  /\ trip \in ShapeTrips
  /\ today = Today
  /\ selectedLeg = NoSelection
  /\ stored = trip
  /\ storeOk = TRUE
  /\ shown = NoShown
  /\ lastOp = NoOp
  /\ startDot = "none"

EnsureShape ==
  /\ pc = "loaded"
  /\ LET e == ensureLegStatusShape(trip)
     IN /\ trip' = e.trip
        /\ lastOp' = OpNoSave("ensureLegStatusShape", e.threw)
  /\ pc' = "shaped"
  /\ UNCHANGED <<today, selectedLeg, stored, shown, startDot>>
  /\ Untouched

ShapeAddLeg ==
  /\ pc \in {"loaded", "shaped"}
  /\ Len(trip.legs) = 1
  /\ \E r \in {addLegToEnd(AppState, today, storeOk)} : Becomes(r)
  /\ pc' = "shaped"
  /\ UNCHANGED <<today, startDot>>
  /\ Untouched

ShapeInsertLeg ==
  /\ pc \in {"loaded", "shaped"}
  /\ Len(trip.legs) = 1
  /\ \E r \in {insertLegAfter(AppState, 0, today, storeOk)} : Becomes(r)
  /\ pc' = "shaped"
  /\ UNCHANGED <<today, startDot>>
  /\ Untouched

NextShape == EnsureShape \/ ShapeAddLeg \/ ShapeInsertLeg

SpecShape == InitShape /\ [][NextShape]_vars

\* Every leg has an entry for each of the nine keys, with a recognized state
\* and a note that is not null.
Shaped(t) ==
  \A i \in 1..Len(t.legs) : \A k \in 1..Len(LEG_STATUS_KEYS) :
    LET key == LEG_STATUS_KEYS[k]
    IN /\ key \in DOMAIN t.legs[i].status
       /\ t.legs[i].status[key].state \in STATUS_STATES
       /\ t.legs[i].status[key].note \notin {JsNull, JsUndefined}

\* The keys the first leg lacked when loaded are at not_started.
MissingDefaulted(t, loaded) ==
  \A k \in 1..Len(LEG_STATUS_KEYS) :
    LET key == LEG_STATUS_KEYS[k]
    IN key \notin DOMAIN loaded.legs[1].status =>
         /\ key \in DOMAIN t.legs[1].status
         /\ t.legs[1].status[key] = Entry("not_started", "")

\* A leg with empty endpoints and every key at not_started, no note.
BlankShaped(l) ==
  /\ l.stdUtc = NoValue
  /\ l.staUtc = NoValue
  /\ DOMAIN l.status = {LEG_STATUS_KEYS[k] : k \in 1..Len(LEG_STATUS_KEYS)}
  /\ \A key \in DOMAIN l.status : l.status[key] = Entry("not_started", "")

\* C17: after ensureLegStatusShape every leg has all nine keys with a
\* recognized state and a non-null note, a key that was missing is at
\* not_started, a second application changes nothing, and the blank leg of
\* addLegToEnd / insertLegAfter has every key at not_started and no endpoints.
C17_StatusShape ==
  pc = "shaped" =>
    /\ Shaped(trip)
    /\ MissingDefaulted(trip, stored)
    /\ ensureLegStatusShape(trip).trip = trip
    /\ ~ensureLegStatusShape(trip).threw
    /\ lastOp.name \in {"addLegToEnd", "insertLegAfter"} =>
         (Len(trip.legs) = 2 /\ BlankShaped(trip.legs[2]))

\* No entry of the loaded leg holds a state that is neither text nor falsy.
TextStates(t) ==
  \A i \in 1..Len(t.legs) : \A key \in DOMAIN t.legs[i].status :
    Truthy(t.legs[i].status[key].state) => IsString(t.legs[i].status[key].state)

\* What does hold: the same, for trips whose states are texts or falsy.
ShapeOfTextStates == TextStates(stored) => C17_StatusShape

(* ======================================================================= *)
(* First fit in assignLanes                                                *)
(* ======================================================================= *)
\* The lanes given to the segments placed before position k, and the endMin
\* of the last of them in lane i.
LanesBefore(out, k) == {out[j].lane : j \in 1..(k - 1)}

LaneEndBefore(out, k, i) ==
  out[Max({j \in 1..(k - 1) : out[j].lane = i})].endMin

FirstFit(out) ==
  \A k \in 1..Len(out) :
    LET used == LanesBefore(out, k)
        free == {i \in used : LaneEndBefore(out, k, i) <= out[k].startMin}
    IN IF free # {}
       THEN out[k].lane \in free /\ \A i \in free : out[k].lane <= i
       ELSE out[k].lane = Cardinality(used)

\* Ascending startMin, segments of equal startMin in the order of the input.
SortedStable(in, out) ==
  /\ Len(out) = Len(in)
  /\ \A k \in 1..(Len(out) - 1) : out[k].startMin <= out[k + 1].startMin
  /\ \A m \in LaneMarks :
       LET At(s) == s.startMin = m
       IN SelectSeq(out, At) = SelectSeq(in, At)

\* C18: assignLanes takes the segments by ascending startMin, ties in input
\* order, and gives each the lowest lane whose last endMin is <= its startMin,
\* or the next new lane if there is none; so of two segments the second
\* shares lane 0 when it starts at the first's endMin, and [480,600) followed
\* by [540,660) get lanes 0 and 1.
C18_FirstFit ==
  (pc = "lanes" /\ runs >= 1) =>
    /\ SortedStable(daySegs, laidOut)
    /\ FirstFit(laidOut)
    /\ (Len(daySegs) = 2 /\ daySegs[2].startMin = daySegs[1].endMin) =>
         (daySegs[1].lane = 0 /\ daySegs[2].lane = 0)
    /\ (/\ Len(daySegs) = 2
        /\ daySegs[1].startMin = 480 /\ daySegs[1].endMin = 600
        /\ daySegs[2].startMin = 540 /\ daySegs[2].endMin = 660) =>
         (daySegs[1].lane = 0 /\ daySegs[2].lane = 1)

C18_Witness ==
  /\ pc = "lanes"
  /\ runs = 1
  /\ laidOut = <<[startMin |-> 480, endMin |-> 600, lane |-> 0],
                 [startMin |-> 540, endMin |-> 660, lane |-> 1]>>

(* ======================================================================= *)
(* The trip range against the day segments of the trip's legs              *)
(* ======================================================================= *)
\* getTripSpanWithinViewUTC over the view days viewStart..viewEnd: the
\* indices of the first and last day of the trip bar, or no span.
NoSpan == [startIdx |-> NoValue, endIdx |-> NoValue]

getTripSpanWithinViewUTC(t, viewStart, viewEnd) ==
  IF t.endDate < viewStart \/ t.startDate > viewEnd THEN NoSpan
  ELSE LET startISO == IF t.startDate < viewStart THEN viewStart ELSE t.startDate
           endISO == IF t.endDate > viewEnd THEN viewEnd ELSE t.endDate
       IN IF startISO \notin viewStart..viewEnd \/ endISO \notin viewStart..viewEnd
          THEN NoSpan
          ELSE [startIdx |-> startISO - viewStart, endIdx |-> endISO - viewStart]

\* Endpoints of the legs: midnight and 23:00 of each day, missing, unparsable.
RangeEndpoints ==
  {d * SecPerDay + m * SecPerMin : d \in 0..MaxDay, m \in {0, 1380}} \cup {NoValue, BadValue}

RangeLegs == {Leg(a, b, EmptyStatus) : a \in RangeEndpoints, b \in RangeEndpoints}

\* A trip of two legs as loaded, with no dates yet.
InitRange ==
  /\ pc = "loaded"
  /\ legs = <<>>
  /\ segs = <<>>
  /\ laid = <<>>
  /\ IdleLanes
  /\ IdleStatus
  /\ tripDot = "none"
  /\ trip \in {[id |-> "T1", legs |-> <<l1, l2>>, startDate |-> NoValue, endDate |-> NoValue] :
                 l1 \in RangeLegs, l2 \in RangeLegs}
  /\ today = Today
  /\ selectedLeg = NoSelection
  /\ stored = NoTrip
  /\ storeOk = TRUE
  /\ shown = NoShown
  /\ lastOp = NoOp
  /\ startDot = "none"

\* render: updateTripDatesFromLegs on the trip, then the segments of its legs
\* as makeRegRow collects them.
RenderRange ==
  /\ pc = "loaded"
  /\ trip' = updateTripDatesFromLegs(trip, today)
  /\ segs' = RowSegments(trip.legs, Len(trip.legs))
  /\ pc' = "ranged"
  /\ UNCHANGED <<legs, laid, daySegs, laidOut, runs, keyState, legDot, tripDot, today,
                 selectedLeg, stored, storeOk, shown, lastOp, startDot>>

NextRange == RenderRange

SpecRange == InitRange /\ [][NextRange]_vars

\* C21: right after updateTripDatesFromLegs every segment of every leg of the
\* trip has startDate <= dayISO <= endDate, and in any view holding the
\* segment's day the trip bar has a span that covers that day.
C21_SegmentsInRange ==
  pc = "ranged" =>
    \A k \in 1..Len(segs) :
      /\ trip.startDate <= segs[k].dayISO
      /\ segs[k].dayISO <= trip.endDate
      /\ \A viewStart, viewEnd \in 0..(MaxDay + 1) :
           (viewStart <= segs[k].dayISO /\ segs[k].dayISO <= viewEnd) =>
             LET span == getTripSpanWithinViewUTC(trip, viewStart, viewEnd)
             IN /\ span # NoSpan
                /\ span.startIdx <= segs[k].dayISO - viewStart
                /\ segs[k].dayISO - viewStart <= span.endIdx

C21_Witness ==
  /\ pc = "ranged"
  /\ legToDaySegments("T1", 0, trip.legs[1]) = <<>>
  /\ trip.legs[1].stdUtc > trip.legs[1].staUtc
  /\ trip.legs[1].staUtc >= 0
  /\ Len(segs) = 3
  /\ segs[1].dayISO = 0
  /\ segs[3].dayISO = 2
  /\ trip.startDate = 0
  /\ trip.endDate = 2

(* ======================================================================= *)
(* The selection across deleteLeg                                          *)
(* ======================================================================= *)
\* The selection designates a leg of the trip.
SelectionExists ==
  selectedLeg # NoSelection =>
    (trip # NoTrip /\ selectedLeg.tripId = trip.id
     /\ selectedLeg.legIndex \in 0..(Len(trip.legs) - 1))

\* A confirmed deletion of leg i: the other legs in their order, the
\* selection cleared, moved down by one or left, and still on the same leg.
DeletedAt(i) ==
  /\ Len(trip'.legs) = Len(trip.legs) - 1
  /\ \A k \in 1..Len(trip'.legs) :
       trip'.legs[k] = IF k < i + 1 THEN trip.legs[k] ELSE trip.legs[k + 1]
  /\ IF selectedLeg = NoSelection THEN selectedLeg' = NoSelection
     ELSE /\ selectedLeg.legIndex = i => selectedLeg' = NoSelection
          /\ selectedLeg.legIndex > i =>
               selectedLeg' = [selectedLeg EXCEPT !.legIndex = selectedLeg.legIndex - 1]
          /\ selectedLeg.legIndex < i => selectedLeg' = selectedLeg
          /\ selectedLeg.legIndex # i =>
               trip'.legs[selectedLeg'.legIndex + 1] = trip.legs[selectedLeg.legIndex + 1]

\* A declined deletion: legs, selection and store as they were, no save.
Declined ==
  /\ trip' = trip
  /\ selectedLeg' = selectedLeg
  /\ stored' = stored
  /\ ~lastOp'.saved

\* The step is deleteLeg on leg i with the given answer to confirm().
DeleteStep(i, confirmed) ==
  /\ lastOp' # NoOp
  /\ lastOp'.name = "deleteLeg"
  /\ lastOp'.saved = confirmed
  /\ DeleteLegAt(i, confirmed)

\* C22: a confirmed deleteLeg(trip, i) clears the selection if it was on leg
\* i, lowers it by one if it was behind i, leaves it if it was before i, and
\* keeps the other legs in order; a declined one changes neither legs nor
\* selection and saves nothing; after every step a selection designates an
\* existing leg, across a deletion the same leg as before.
C22_SelectionFollows ==
  [][/\ \A i \in 0..(MaxBoardLegs - 1) :
          /\ DeleteStep(i, TRUE) => DeletedAt(i)
          /\ DeleteStep(i, FALSE) => Declined
     /\ SelectionExists']_vars

C22_Witness ==
  /\ pc = "app"
  /\ lastOp # NoOp
  /\ lastOp.name = "deleteLeg"
  /\ lastOp.saved
  /\ Len(trip.legs) = 1
  /\ selectedLeg # NoSelection
  /\ selectedLeg.legIndex = 0
  /\ trip.legs[1].stdUtc = 3 * SecPerDay + 540 * SecPerMin

====
